---- MODULE Spec2Model ----
(***************************************************************************)
(* Sensor-to-cloud telemetry relay: NPKMonitor (src/src/main.py),          *)
(* NPKSensorReader (src/src/npk_reader.py) and ThingsBoardMQTTPublisher    *)
(* (src/src/mqtt_publisher.py).                                            *)
(*                                                                         *)
(* The main thread is a call stack: stack[1] is the position of            *)
(* NPKMonitor.start, every further element is a _signal_handler frame      *)
(* running stop().  Only the top frame executes, as CPython runs a signal  *)
(* handler in the main thread between two bytecodes.  The MQTT client's    *)
(* network thread (loop_start) runs concurrently and delivers the          *)
(* _on_connect / _on_disconnect callbacks.                                 *)
(***************************************************************************)
EXTENDS Integers, Sequences, FiniteSets, TLC

\* ---------------------------------------------------------------- bounds
MaxCycles == 2
MaxSignals == 2

\* ------------------------------------------------------------- constants
None == -1
NoData == << >>
Values == {0, 1}
\* Epoch milliseconds the system clock may read.
Timestamps == {0, 1}
\* No payload has been built.
NoPayload == [kind |-> "none"]
Outcomes == Values \cup {None}

Mandatory == {"nitrogen", "phosphorus", "potassium"}
Optional == {"temperature", "moisture", "ph", "ec"}

\* Register maps of the configuration (sensor.registers), by channel name:
\* the mandatory channels alone, with an optional channel and a name the
\* reader does not know, and a map that lacks a mandatory channel.
RegisterMaps ==
    { Mandatory,
      Mandatory \cup {"temperature", "salinity"},
      {"nitrogen", "potassium", "temperature"} }

VARIABLES
    registers,          \* NPKSensorReader.registers (channel names)
    reading_interval,   \* application.reading_interval is a usable number
    include_timestamp,  \* mqtt.include_timestamp
    stack,              \* call stack of the main thread
    running,            \* NPKMonitor.running
    sensor,             \* NPKMonitor.sensor is not None
    publisher,          \* NPKMonitor.publisher is not None
    start_time,         \* stats['start_time'] is not None
    readings_count, publish_success, publish_failed, sensor_errors,
    out,                \* what the transport returned for each register read
    batch,              \* value returned by read_all_sensors
    data,               \* value returned by _read_sensor_data
    timestamp,          \* timestamp argument of publish_telemetry
    payload,            \* payload built by publish_telemetry
    connected,          \* ThingsBoardMQTTPublisher.connected
    publish_count,      \* ThingsBoardMQTTPublisher.publish_count
    last_publish_time,  \* publish_count at the last stamp, None if never
    loopRunning,        \* the client's network thread is running
    link,               \* session as the transport sees it
    connCaller,         \* who called publisher.connect()
    result,             \* return value of start()
    hist                \* observations of the run (calls made, signals)

vars == << registers, reading_interval, include_timestamp, stack, running, sensor, publisher,
           start_time, readings_count, publish_success, publish_failed,
           sensor_errors, out, batch, data, timestamp, payload, connected,
           publish_count, last_publish_time, loopRunning, link, connCaller,
           result, hist >>

monitorVars == << running, sensor, publisher, start_time >>
statVars == << readings_count, publish_success, publish_failed, sensor_errors >>
readVars == << out, batch, data >>
pubVars == << connected, publish_count, last_publish_time, loopRunning, link >>
sendVars == << timestamp, payload >>
cfgVars == << registers, reading_interval, include_timestamp >>

\* ------------------------------------------------------------ call stack
Top == stack[Len(stack)]
SetTop(p) == [stack EXCEPT ![Len(stack)] = p]
InMain == Len(stack) = 1
\* hist.ev: the calls into the sensor, the MQTT client and the log that the
\* last step of the main thread made.
Ev(calls) == [hist EXCEPT !.ev = calls]
Bump(f, calls) == [hist EXCEPT ![f] = @ + 1, !.ev = calls]

\* ------------------------------------------------------- NPKSensorReader
\* Channels read_all_sensors reads through the transport: the three
\* mandatory ones unconditionally, an optional one when it is configured.
Attempted(regs) == Mandatory \cup (Optional \cap regs)

\* self.registers['nitrogen'] raises KeyError when the key is missing.
ReadRaises(regs) == ~(Mandatory \subseteq regs)

read_npk(o) == [c \in Mandatory |-> o[c]]

\* Mutation: the `is not None` guards of the optional channels are
\* missing, a failed optional read is stored as None.
read_all_sensors_KeepNone(regs, o) ==
    [c \in Mandatory \cup (Optional \cap regs) |-> o[c]]

read_all_sensors(regs, o) ==
    [c \in Mandatory \cup {x \in Optional \cap regs : o[x] # None} |->
        IF c \in Mandatory THEN read_npk(o)[c] ELSE o[c]]

\* test_connection: one nitrogen read, any exception is caught.
test_connection(regs, v) == "nitrogen" \in regs /\ v # None

\* Mutation: the validation looks at every key of the batch, so a batch
\* with only an optional value passes.
NoMandatory_AnyChannel(b) ==
    \A c \in DOMAIN b : b[c] = None

\* Mutation: the validation tests the truth value, a reading of 0 counts
\* as absent.
NoMandatory_Truthy(b) ==
    \A c \in Mandatory : c \notin DOMAIN b \/ b[c] = None \/ b[c] = 0

\* _read_sensor_data, validation: data.get(k) is None for all three.
NoMandatory(b) ==
    \A c \in Mandatory : c \notin DOMAIN b \/ b[c] = None

\* Mutation: the entries are kept by truth value, a value of 0 is dropped.
StripNone_Truthy(b) ==
    [c \in {x \in DOMAIN b : b[x] # None /\ b[x] # 0} |-> b[c]]

\* _read_sensor_data: {k: v for k, v in data.items() if v is not None}
StripNone(b) == [c \in {x \in DOMAIN b : b[x] # None} |-> b[c]]

\* Configurations the monitor is started with: every setting of the
\* interval and of include_timestamp with the default channels, the
\* defaults of both with the other register maps.
Configs ==
    { c \in [registers : RegisterMaps, reading_interval : BOOLEAN,
             include_timestamp : BOOLEAN] :
        c.registers = Mandatory \/ (c.reading_interval /\ ~c.include_timestamp) }

\* ----------------------------------------------------------------- Init
Init ==
    /\ \E c \in Configs :
         /\ registers = c.registers
         /\ reading_interval = c.reading_interval
         /\ include_timestamp = c.include_timestamp
    /\ stack = << "init_sensor" >>
    /\ running = FALSE
    /\ sensor = FALSE
    /\ publisher = FALSE
    /\ start_time = FALSE
    /\ readings_count = 0
    /\ publish_success = 0
    /\ publish_failed = 0
    /\ sensor_errors = 0
    /\ out = NoData
    /\ batch = NoData
    /\ data = NoData
    /\ timestamp = None
    /\ payload = NoPayload
    /\ connected = FALSE
    /\ publish_count = 0
    /\ last_publish_time = None
    /\ loopRunning = FALSE
    /\ link = "closed"
    /\ connCaller = "none"
    /\ result = "none"
    /\ hist = [ ev |-> {},
                sensorCtor |-> 0, testConn |-> 0, pubCtor |-> 0, initConnect |-> 0,
                cycles |-> 0, cycleConnects |-> 0, cycleStartConnected |-> FALSE,
                reconnectRun |-> 0, softFail |-> FALSE,
                sigs |-> 0, loopException |-> FALSE, initFailed |-> "none",
                statsLogged |-> 0, closeCalls |-> 0, disconnectCalls |-> 0,
                lastAck |-> FALSE, attempted |-> {},
                cycleSteps |-> << >> ]

\* start() returns r: the frame of start is finished.
Return(r) == /\ stack' = << "returned" >>
             /\ result' = r

\* ------------------------------------------------ start(): Initializing
\* _initialize_sensor: NPKSensorReader(...) may raise (serial port).
InitSensor ==
    /\ InMain /\ Top = "init_sensor"
    /\ \E ok \in BOOLEAN :
         IF ok
         THEN /\ sensor' = TRUE
              /\ stack' = SetTop("test_conn")
              /\ result' = result
              /\ hist' = Bump("sensorCtor", {"NPKSensorReader"})
         ELSE /\ sensor' = sensor
              /\ Return("false")
              /\ hist' = [Bump("sensorCtor", {"NPKSensorReader"}) EXCEPT !.initFailed = "sensor"]
    /\ UNCHANGED << cfgVars, running, publisher, start_time, statVars,
                    readVars, sendVars, pubVars, connCaller >>

\* _initialize_sensor: self.sensor.test_connection()
TestConnection ==
    /\ InMain /\ Top = "test_conn"
    /\ \E v \in Outcomes :
         IF test_connection(registers, v)
         THEN /\ stack' = SetTop("init_pub")
              /\ result' = result
              /\ hist' = Bump("testConn", {"test_connection"})
         ELSE /\ Return("false")
              /\ hist' = [Bump("testConn", {"test_connection"}) EXCEPT !.initFailed = "test"]
    /\ UNCHANGED << cfgVars, monitorVars, statVars, readVars, sendVars, pubVars,
                    connCaller >>

\* _initialize_publisher: ThingsBoardMQTTPublisher(...) may raise; on
\* success publisher.connect() is called.
InitPublisher ==
    /\ InMain /\ Top = "init_pub"
    /\ \E ok \in BOOLEAN :
         IF ok
         THEN /\ publisher' = TRUE
              /\ stack' = SetTop("c_connect")
              /\ connCaller' = "init"
              /\ result' = result
              /\ hist' = [Bump("pubCtor", {"ThingsBoardMQTTPublisher", "connect"})
                           EXCEPT !.initConnect = @ + 1]
         ELSE /\ publisher' = publisher
              /\ connCaller' = connCaller
              /\ Return("false")
              /\ hist' = [Bump("pubCtor", {"ThingsBoardMQTTPublisher"}) EXCEPT !.initFailed = "publisher"]
    /\ UNCHANGED << cfgVars, running, sensor, start_time, statVars,
                    readVars, sendVars, pubVars >>

\* ------------------------------------- ThingsBoardMQTTPublisher.connect
\* Mutation: _initialize_publisher ignores the value connect() returned.
ConnectReturn_Ignored(r, h) ==
    /\ connCaller' = "none"
    /\ result' = result
    /\ stack' = SetTop(IF connCaller = "init" THEN "init_attrs" ELSE "read")
    /\ hist' = IF r THEN h
               ELSE IF connCaller = "init"
                    THEN [h EXCEPT !.initFailed = "connect"]
                    ELSE [h EXCEPT !.softFail = TRUE]

\* connect() returns r to its caller; h is the history so far.
ConnectReturn(r, h) ==
    /\ connCaller' = "none"
    /\ IF connCaller = "init"
       THEN IF r
            THEN /\ stack' = SetTop("init_attrs")
                 /\ result' = result
                 /\ hist' = h
            ELSE /\ Return("false")
                 /\ hist' = [h EXCEPT !.initFailed = "connect"]
       ELSE /\ stack' = SetTop("read")
            /\ result' = result
            /\ hist' = IF r THEN h ELSE [h EXCEPT !.softFail = TRUE]

\* self.client.connect(host, port, keepalive): opens a new transport
\* connection; raises when the broker cannot be reached, and connect()
\* then returns False from its except clause.
ClientConnect ==
    /\ InMain /\ Top = "c_connect"
    /\ \E ok \in BOOLEAN :
         IF ok
         THEN /\ link' = "pending"
              /\ stack' = SetTop("c_loop_start")
              /\ hist' = Ev({"client.connect"})
              /\ UNCHANGED << connCaller, result >>
         ELSE /\ link' = "down"
              /\ ConnectReturn(FALSE, Ev({"client.connect"}))
    /\ UNCHANGED << cfgVars, monitorVars, statVars, readVars, sendVars, connected,
                    publish_count, last_publish_time, loopRunning >>

\* self.client.loop_start()
LoopStart ==
    /\ InMain /\ Top = "c_loop_start"
    /\ loopRunning' = TRUE
    /\ stack' = SetTop("c_wait")
    /\ hist' = Ev({"client.loop_start"})
    /\ UNCHANGED << cfgVars, monitorVars, statVars, readVars, sendVars, connected,
                    publish_count, last_publish_time, link, connCaller, result >>

\* Mutation: the wait has no timeout, it ends only when the flag is set.
ConnectWait_NoTimeout ==
    /\ InMain /\ Top = "c_wait"
    /\ connected
    /\ stack' = SetTop("c_result")
    /\ hist' = Ev({})
    /\ UNCHANGED << cfgVars, monitorVars, statVars, readVars, sendVars, pubVars,
                    connCaller, result >>

\* while not self.connected and elapsed < timeout: the wait ends when the
\* flag is seen set or when the timeout has elapsed.
ConnectWait ==
    /\ InMain /\ Top = "c_wait"
    /\ \E timeout \in BOOLEAN : connected \/ timeout
    /\ stack' = SetTop("c_result")
    /\ hist' = Ev({})
    /\ UNCHANGED << cfgVars, monitorVars, statVars, readVars, sendVars, pubVars,
                    connCaller, result >>

\* if self.connected: return True  else: return False
ConnectResult ==
    /\ InMain /\ Top = "c_result"
    /\ ConnectReturn(connected, Ev({}))
    /\ UNCHANGED << cfgVars, monitorVars, statVars, readVars, sendVars, pubVars >>

\* Mutation: an accepted attributes publish is counted like telemetry.
PublishAttributes_Counts ==
    /\ InMain /\ Top = "init_attrs"
    /\ hist' = IF connected
               THEN Ev({"publish_attributes", "client.publish"})
               ELSE Ev({"publish_attributes"})
    /\ publish_count' = IF connected THEN publish_count + 1 ELSE publish_count
    /\ last_publish_time' = IF connected THEN publish_count + 1
                                         ELSE last_publish_time
    /\ stack' = SetTop("set_running")
    /\ UNCHANGED << cfgVars, monitorVars, statVars, readVars, sendVars,
                    connected, loopRunning, link, connCaller, result >>

\* _publish_device_attributes: publish_attributes returns False when not
\* connected, otherwise hands the payload to the transport; no counter.
PublishAttributes ==
    /\ InMain /\ Top = "init_attrs"
    /\ hist' = IF connected
               THEN Ev({"publish_attributes", "client.publish"})
               ELSE Ev({"publish_attributes"})
    /\ stack' = SetTop("set_running")
    /\ UNCHANGED << cfgVars, monitorVars, statVars, readVars, sendVars, pubVars,
                    connCaller, result >>

\* self.running = True
SetRunning ==
    /\ InMain /\ Top = "set_running"
    /\ running' = TRUE
    /\ stack' = SetTop("set_start")
    /\ hist' = Ev({})
    /\ UNCHANGED << cfgVars, sensor, publisher, start_time, statVars,
                    readVars, sendVars, pubVars, connCaller, result >>

\* self.stats['start_time'] = datetime.now()
SetStartTime ==
    /\ InMain /\ Top = "set_start"
    /\ start_time' = TRUE
    /\ stack' = SetTop("loop_top")
    /\ hist' = Ev({})
    /\ UNCHANGED << cfgVars, running, sensor, publisher, statVars,
                    readVars, sendVars, pubVars, connCaller, result >>

\* ----------------------------------------------------- start(): Running
\* Mutation: the cycle starts with the read, the reconnect check is gone.
LoopTop_SkipsCheck ==
    /\ InMain /\ Top = "loop_top"
    /\ IF running
       THEN /\ hist.cycles < MaxCycles
            /\ stack' = SetTop("read")
            /\ hist' = Bump("cycles", {})
       ELSE /\ stack' = SetTop("finally")
            /\ hist' = Ev({})
    /\ UNCHANGED << cfgVars, monitorVars, statVars, readVars, sendVars, pubVars,
                    connCaller, result >>

\* while self.running:
LoopTop ==
    /\ InMain /\ Top = "loop_top"
    /\ IF running
       THEN /\ hist.cycles < MaxCycles
            /\ stack' = SetTop("ensure")
            /\ hist' = Bump("cycles", {})
       ELSE /\ stack' = SetTop("finally")
            /\ hist' = Ev({})
    /\ UNCHANGED << cfgVars, monitorVars, statVars, readVars, sendVars, pubVars,
                    connCaller, result >>

\* Mutation: the reconnect is never attempted.
NeedsConnect_Never(c) == FALSE

\* _ensure_mqtt_connection: connect() is called iff is_connected() is False.
NeedsConnect(c) == ~c

EnsureMqttConnection ==
    /\ InMain /\ Top = "ensure"
    /\ IF NeedsConnect(connected)
       THEN /\ stack' = SetTop("c_connect")
            /\ connCaller' = "loop"
            /\ hist' = [hist EXCEPT !.ev = {"is_connected", "connect"},
                                    !.cycleSteps = Append(@, "check"),
                                    !.cycleConnects = 1,
                                    !.cycleStartConnected = connected,
                                    !.reconnectRun = @ + 1,
                                    !.softFail = FALSE]
       ELSE /\ stack' = SetTop("read")
            /\ connCaller' = connCaller
            /\ hist' = [hist EXCEPT !.ev = {"is_connected"},
                                    !.cycleSteps = Append(@, "check"),
                                    !.cycleConnects = 0,
                                    !.cycleStartConnected = connected,
                                    !.reconnectRun = 0,
                                    !.softFail = FALSE]
    /\ UNCHANGED << cfgVars, monitorVars, statVars, readVars, sendVars, pubVars, result >>

\* read_npk evaluates read_nitrogen(), read_phosphorus(), read_potassium()
\* in this order.
MandatoryOrder == << "nitrogen", "phosphorus", "potassium" >>

\* The channels whose register one call of read_all_sensors reads: all of
\* Attempted(regs), or, when a mandatory key is missing, the mandatory
\* channels in front of the first missing one.
AttemptedChannels(regs) ==
    IF ReadRaises(regs)
    THEN { MandatoryOrder[i] : i \in { j \in 1..3 :
             \A k \in 1..j : MandatoryOrder[k] \in regs } }
    ELSE Attempted(regs)

\* The call of read_all_sensors as the run's history records it.
ReadEv == [hist EXCEPT !.ev = {"read_all_sensors"},
                       !.attempted = AttemptedChannels(registers),
                       !.cycleSteps = Append(@, "read")]

\* _read_sensor_data: self.sensor.read_all_sensors().  A missing mandatory
\* key raises KeyError, which _read_sensor_data catches: sensor_errors += 1.
ReadAllSensors ==
    /\ InMain /\ Top = "read"
    /\ IF ReadRaises(registers)
       THEN /\ sensor_errors' = sensor_errors + 1
            /\ stack' = SetTop("sleep")
            /\ hist' = [ReadEv EXCEPT !.softFail = TRUE]
            /\ UNCHANGED << out, batch >>
       ELSE /\ \E o \in [Attempted(registers) -> Outcomes] :
                 /\ out' = o
                 /\ batch' = read_all_sensors(registers, o)
                 /\ hist' = IF \E c \in DOMAIN o : o[c] = None
                            THEN [ReadEv EXCEPT !.softFail = TRUE]
                            ELSE ReadEv
            /\ stack' = SetTop("validate")
            /\ sensor_errors' = sensor_errors
    /\ UNCHANGED << cfgVars, monitorVars, readings_count, publish_success,
                    publish_failed, data, sendVars, pubVars, connCaller, result >>

\* Mutation: a cycle without valid data is not counted as a sensor error.
SkipCycle_Uncounted ==
    /\ sensor_errors' = sensor_errors
    /\ readings_count' = readings_count
    /\ data' = NoData
    /\ stack' = SetTop("sleep")
    /\ hist' = [Ev({}) EXCEPT !.softFail = TRUE,
                              !.cycleSteps = Append(@, "validate")]

\* Mutation: the loop is left (break) when no valid data was read.
SkipCycle_Break ==
    /\ sensor_errors' = sensor_errors + 1
    /\ readings_count' = readings_count
    /\ data' = NoData
    /\ stack' = SetTop("finally")
    /\ hist' = [Ev({}) EXCEPT !.softFail = TRUE,
                              !.cycleSteps = Append(@, "validate")]

\* Mutation: the failed read is counted as a reading as well.
SkipCycle_CountsReading ==
    /\ sensor_errors' = sensor_errors + 1
    /\ readings_count' = readings_count + 1
    /\ data' = NoData
    /\ stack' = SetTop("sleep")
    /\ hist' = [Ev({}) EXCEPT !.softFail = TRUE,
                              !.cycleSteps = Append(@, "validate")]

\* No valid NPK data: sensor_errors += 1, _read_sensor_data returns None
\* and start() goes on to the sleep of this cycle.
SkipCycle ==
    /\ sensor_errors' = sensor_errors + 1
    /\ readings_count' = readings_count
    /\ data' = NoData
    /\ stack' = SetTop("sleep")
    /\ hist' = [Ev({}) EXCEPT !.softFail = TRUE,
                              !.cycleSteps = Append(@, "validate")]

\* _read_sensor_data after the read: validation, stripping, counters; then
\* `if data:` in start().
Validate ==
    /\ InMain /\ Top = "validate"
    /\ IF NoMandatory(batch)
       THEN SkipCycle
       ELSE /\ sensor_errors' = sensor_errors
            /\ readings_count' = readings_count + 1
            /\ data' = StripNone(batch)
            /\ stack' = SetTop(IF DOMAIN StripNone(batch) # {}
                               THEN "publish" ELSE "sleep")
            /\ hist' = [Ev({}) EXCEPT !.cycleSteps = Append(@, "validate")]
    /\ out' = NoData
    /\ batch' = NoData
    /\ UNCHANGED << cfgVars, monitorVars, publish_success, publish_failed,
                    sendVars, pubVars, connCaller, result >>

\* Mutation: a failed publish is not counted.
PublishCounters_OnlySuccess(r) ==
    IF r THEN << publish_success + 1, publish_failed >>
         ELSE << publish_success, publish_failed >>

\* Mutation: a failure after the success was counted is counted as well.
PublishCounters_Both(r) ==
    IF r THEN << publish_success + 1, publish_failed + 1 >>
         ELSE << publish_success, publish_failed + 1 >>

\* _publish_data: publish_success += 1 when publish_telemetry returned True,
\* publish_failed += 1 otherwise; the pair after the update.
PublishCounters(r) ==
    IF r THEN << publish_success + 1, publish_failed >>
         ELSE << publish_success, publish_failed + 1 >>

\* Mutation: the connected check is missing.
SendAllowed_Always(c) == TRUE

\* publish_telemetry, first statement: `if not self.connected: return False`
\* and, in _publish_data, publish_failed += 1 on a False return.
SendAllowed(c) == c

\* _publish_data: the timestamp passed on is the system clock in epoch
\* milliseconds when include_timestamp is set, None otherwise.
TimestampArgs(use_timestamp) == IF use_timestamp THEN Timestamps ELSE {None}

\* publish_telemetry: `if timestamp:` wraps the data as {ts, values},
\* otherwise the data is the payload.
Payload(d, t) ==
    IF t # None /\ t # 0
    THEN [kind |-> "ts_values", ts |-> t, values |-> d]
    ELSE [kind |-> "raw", values |-> d]

\* _publish_data calls publish_telemetry(data, timestamp), which returns
\* False when disconnected and builds the payload otherwise.
PublishTelemetry ==
    /\ InMain /\ Top = "publish"
    /\ IF SendAllowed(connected)
       THEN /\ \E t \in TimestampArgs(include_timestamp) :
                 /\ timestamp' = t
                 /\ payload' = Payload(data, t)
            /\ stack' = SetTop("pt_send")
            /\ hist' = [Ev({"publish_telemetry"}) EXCEPT
                           !.cycleSteps = Append(@, "publish")]
            /\ UNCHANGED << publish_success, publish_failed, data >>
       ELSE /\ publish_success' = PublishCounters(FALSE)[1]
            /\ publish_failed' = PublishCounters(FALSE)[2]
            /\ data' = NoData
            /\ stack' = SetTop("sleep")
            /\ hist' = [Ev({"publish_telemetry"}) EXCEPT
                           !.softFail = TRUE,
                           !.cycleSteps = Append(@, "publish")]
            /\ UNCHANGED sendVars
    /\ UNCHANGED << cfgVars, monitorVars, readings_count,
                    sensor_errors, out, batch, pubVars, connCaller, result >>

\* Mutation: publish_count is advanced by every call of client.publish.
TransportSend_CountsEveryCall ==
    /\ InMain /\ Top = "pt_send"
    /\ \E rc \in {"ok", "err", "raise"} :
         IF rc = "ok"
         THEN /\ publish_count' = publish_count + 1
              /\ last_publish_time' = publish_count + 1
              /\ publish_success' = PublishCounters(TRUE)[1]
              /\ publish_failed' = PublishCounters(TRUE)[2]
              /\ hist' = Ev({"client.publish", "rc_success"})
         ELSE /\ publish_success' = PublishCounters(FALSE)[1]
              /\ publish_failed' = PublishCounters(FALSE)[2]
              /\ hist' = [Ev({"client.publish"}) EXCEPT !.softFail = TRUE]
              /\ publish_count' = publish_count + 1
              /\ last_publish_time' = publish_count + 1
    /\ data' = NoData
    /\ timestamp' = None
    /\ payload' = NoPayload
    /\ stack' = SetTop("sleep")
    /\ UNCHANGED << cfgVars, monitorVars, readings_count, sensor_errors,
                    out, batch, connected, loopRunning, link, connCaller, result >>

\* publish_telemetry: self.client.publish(...) and the test of result.rc;
\* the transport accepts the send ("ok"), rejects it ("err") or raises.
\* "rc_success" in the record of the step: result.rc == MQTT_ERR_SUCCESS.
TransportSend ==
    /\ InMain /\ Top = "pt_send"
    /\ \E rc \in {"ok", "err", "raise"} :
         IF rc = "ok"
         THEN /\ publish_count' = publish_count + 1
              /\ last_publish_time' = publish_count + 1
              /\ publish_success' = PublishCounters(TRUE)[1]
              /\ publish_failed' = PublishCounters(TRUE)[2]
              /\ hist' = Ev({"client.publish", "rc_success"})
         ELSE /\ publish_success' = PublishCounters(FALSE)[1]
              /\ publish_failed' = PublishCounters(FALSE)[2]
              /\ hist' = [Ev({"client.publish"}) EXCEPT !.softFail = TRUE]
              /\ UNCHANGED << publish_count, last_publish_time >>
    /\ data' = NoData
    /\ timestamp' = None
    /\ payload' = NoPayload
    /\ stack' = SetTop("sleep")
    /\ UNCHANGED << cfgVars, monitorVars, readings_count, sensor_errors,
                    out, batch, connected, loopRunning, link, connCaller, result >>

\* time.sleep(reading_interval): raises (TypeError, ValueError) when the
\* configured interval is not a usable number; `except Exception` in
\* start() then returns False after the finally clause.
Sleep ==
    /\ InMain /\ Top = "sleep"
    /\ IF reading_interval
       THEN /\ stack' = SetTop("loop_top")
            /\ hist' = [Ev({"sleep"}) EXCEPT !.cycleSteps = << >>]
       ELSE /\ stack' = SetTop("finally")
            /\ hist' = [Ev({"sleep"}) EXCEPT !.loopException = TRUE,
                                             !.cycleSteps = << >>]
    /\ UNCHANGED << cfgVars, monitorVars, statVars, readVars, sendVars, pubVars,
                    connCaller, result >>

\* finally: self.stop()
Finally ==
    /\ InMain /\ Top = "finally"
    /\ stack' = SetTop("s_check")
    /\ hist' = Ev({"stop"})
    /\ UNCHANGED << cfgVars, monitorVars, statVars, readVars, sendVars, pubVars,
                    connCaller, result >>

\* ------------------------------------------------------ NPKMonitor.stop
\* Mutation: start() returns True also from its except clause.
StopReturn_AlwaysTrue ==
    IF InMain
    THEN Return("true")
    ELSE /\ stack' = SubSeq(stack, 1, Len(stack) - 1)
         /\ result' = result

\* stop() returns: a handler frame is popped, the frame of start() goes on
\* to `return True` or to the `return False` of its except clause.
StopReturn ==
    IF InMain
    THEN Return(IF hist.loopException THEN "false" ELSE "true")
    ELSE /\ stack' = SubSeq(stack, 1, Len(stack) - 1)
         /\ result' = result

InStop(p) == Top = p

\* if not self.running: return
StopCheck ==
    /\ InStop("s_check")
    /\ IF ~running
       THEN StopReturn
       ELSE /\ stack' = SetTop("s_set")
            /\ result' = result
    /\ hist' = Ev({})
    /\ UNCHANGED << cfgVars, monitorVars, statVars, readVars, sendVars, pubVars,
                    connCaller >>

\* self.running = False
StopSetFlag ==
    /\ InStop("s_set")
    /\ running' = FALSE
    /\ stack' = SetTop("s_stats")
    /\ hist' = Ev({})
    /\ UNCHANGED << cfgVars, sensor, publisher, start_time, statVars,
                    readVars, sendVars, pubVars, connCaller, result >>

\* Mutation: the counters are cleared once they have been logged.
PrintStatistics_ResetsCounters ==
    /\ InStop("s_stats")
    /\ hist' = IF start_time THEN Bump("statsLogged", {"log_statistics"}) ELSE Ev({})
    /\ stack' = SetTop("s_close")
    /\ readings_count' = 0 /\ publish_success' = 0
    /\ publish_failed' = 0 /\ sensor_errors' = 0
    /\ UNCHANGED << cfgVars, monitorVars, readVars, sendVars, pubVars,
                    connCaller, result >>

\* _print_statistics: logs only `if self.stats['start_time']`.
PrintStatistics ==
    /\ InStop("s_stats")
    /\ hist' = IF start_time THEN Bump("statsLogged", {"log_statistics"}) ELSE Ev({})
    /\ stack' = SetTop("s_close")
    /\ UNCHANGED << cfgVars, monitorVars, statVars, readVars, sendVars, pubVars,
                    connCaller, result >>

\* if self.sensor: self.sensor.close()
SensorClose ==
    /\ InStop("s_close")
    /\ hist' = IF sensor THEN Bump("closeCalls", {"sensor.close"}) ELSE Ev({})
    /\ stack' = SetTop("s_disc")
    /\ UNCHANGED << cfgVars, monitorVars, statVars, readVars, sendVars, pubVars,
                    connCaller, result >>

\* Mutation: disconnect() does nothing unless the flag is up.
Disconnect_OnlyWhenConnected ==
    /\ InStop("s_disc")
    /\ IF publisher
       THEN /\ loopRunning' = (loopRunning /\ ~connected)
            /\ link' = IF connected THEN "closed" ELSE link
            /\ \E cb \in BOOLEAN :
                 /\ connected' = (connected /\ ~cb)
                 /\ hist' = [hist EXCEPT !.disconnectCalls = @ + 1,
                                          !.ev = {"client.loop_stop", "client.disconnect"},
                                          !.lastAck = (@ /\ ~cb)]
       ELSE /\ hist' = Ev({})
            /\ UNCHANGED << loopRunning, link, connected >>
    /\ StopReturn
    /\ UNCHANGED << cfgVars, monitorVars, statVars, readVars, sendVars,
                    publish_count, last_publish_time, connCaller >>

\* if self.publisher: self.publisher.disconnect(): loop_stop() and
\* client.disconnect().  Whether the transport still delivers
\* _on_disconnect once its thread is stopped is left open.
Disconnect ==
    /\ InStop("s_disc")
    /\ IF publisher
       THEN /\ loopRunning' = FALSE
            /\ link' = "closed"
            /\ \E cb \in BOOLEAN :
                 /\ connected' = (connected /\ ~cb)
                 /\ hist' = [hist EXCEPT !.disconnectCalls = @ + 1,
                                          !.ev = {"client.loop_stop", "client.disconnect"},
                                          !.lastAck = (@ /\ ~cb)]
       ELSE /\ hist' = Ev({})
            /\ UNCHANGED << loopRunning, link, connected >>
    /\ StopReturn
    /\ UNCHANGED << cfgVars, monitorVars, statVars, readVars, sendVars, publish_count,
                    last_publish_time, connCaller >>

\* ---------------------------------------------------- process signals
\* SIGINT / SIGTERM: _signal_handler runs self.stop() on top of whatever
\* the main thread is executing.
Signal ==
    /\ stack[1] # "returned"
    /\ hist.sigs < MaxSignals
    /\ stack' = Append(stack, "s_check")
    /\ hist' = Bump("sigs", {"stop"})
    /\ UNCHANGED << cfgVars, monitorVars, statVars, readVars, sendVars, pubVars,
                    connCaller, result >>

\* ------------------------------------- network thread of the MQTT client
\* _on_connect(rc = 0)
OnConnectAck ==
    /\ loopRunning /\ link = "pending"
    /\ connected' = TRUE
    /\ link' = "up"
    /\ hist' = [hist EXCEPT !.lastAck = TRUE]
    /\ UNCHANGED << cfgVars, stack, monitorVars, statVars, readVars, sendVars,
                    publish_count, last_publish_time, loopRunning,
                    connCaller, result >>

\* _on_connect(rc # 0)
OnConnectRefused ==
    /\ loopRunning /\ link = "pending"
    /\ connected' = FALSE
    /\ link' = "down"
    /\ hist' = [hist EXCEPT !.lastAck = FALSE]
    /\ UNCHANGED << cfgVars, stack, monitorVars, statVars, readVars, sendVars,
                    publish_count, last_publish_time, loopRunning,
                    connCaller, result >>

\* Mutation: _on_disconnect leaves the flag as it is.
OnDisconnect_KeepFlag ==
    /\ loopRunning /\ link = "up"
    /\ link' = "down"
    /\ hist' = [hist EXCEPT !.lastAck = FALSE]
    /\ UNCHANGED << cfgVars, stack, monitorVars, statVars, readVars, sendVars,
                    connected, publish_count, last_publish_time, loopRunning,
                    connCaller, result >>

\* _on_disconnect(rc # 0): the session dropped.
OnDisconnect ==
    /\ loopRunning /\ link = "up"
    /\ connected' = FALSE
    /\ link' = "down"
    /\ hist' = [hist EXCEPT !.lastAck = FALSE]
    /\ UNCHANGED << cfgVars, stack, monitorVars, statVars, readVars, sendVars,
                    publish_count, last_publish_time, loopRunning,
                    connCaller, result >>

\* reconnect_delay_set(min_delay=1, max_delay=120): the network thread
\* opens the connection again by itself.
AutoReconnect ==
    /\ loopRunning /\ link = "down"
    /\ link' = "pending"
    /\ UNCHANGED << cfgVars, stack, monitorVars, statVars, readVars, sendVars,
                    connected, publish_count, last_publish_time, loopRunning,
                    connCaller, result, hist >>

\* ------------------------------------------------------- specification
Next ==
    \/ InitSensor
    \/ TestConnection
    \/ InitPublisher
    \/ ClientConnect
    \/ LoopStart
    \/ ConnectWait
    \/ ConnectResult
    \/ PublishAttributes
    \/ SetRunning
    \/ SetStartTime
    \/ LoopTop
    \/ EnsureMqttConnection
    \/ ReadAllSensors
    \/ Validate
    \/ PublishTelemetry
    \/ TransportSend
    \/ Sleep
    \/ Finally
    \/ StopCheck
    \/ StopSetFlag
    \/ PrintStatistics
    \/ SensorClose
    \/ Disconnect
    \/ Signal
    \/ OnConnectAck
    \/ OnConnectRefused
    \/ OnDisconnect
    \/ AutoReconnect

Spec == Init /\ [][Next]_vars

TypeOK ==
    /\ registers \in RegisterMaps
    /\ running \in BOOLEAN /\ connected \in BOOLEAN
    /\ Len(stack) \in 1..(MaxSignals + 1)
    /\ readings_count \in 0..MaxCycles
    /\ link \in {"closed", "pending", "up", "down"}

\* ================================================================ claims
\* The step makes call c (c was not among the calls of the step before).
Called(c) == c \in hist'.ev /\ c \notin hist.ev

HasMandatoryValue(d) == \E c \in Mandatory : c \in DOMAIN d /\ d[c] # None

\* C1: whenever the monitor is at the call of PublishTelemetry or inside
\* it, the batch passed has at least one of nitrogen, phosphorus and
\* potassium with a non-absent value.
C1_OnlyMandatoryBatchPublished ==
    stack[1] \in {"publish", "pt_send"} => HasMandatoryValue(data)

\* C1 witness: inside PublishTelemetry with a batch in which two of the
\* mandatory channels failed and an optional value is present.
C1_Witness ==
    /\ stack[1] = "pt_send"
    /\ DOMAIN data = {"potassium", "temperature"}

\* C2: a PublishTelemetry call made while the flag is false returns false
\* (counted as a failed publish), reaches neither the transport publish
\* nor any connect, and leaves publish_count and last_publish_time alone.
C2_PublishWhenDisconnected ==
    [][ (Called("publish_telemetry") /\ ~connected) =>
          /\ "client.publish" \notin hist'.ev
          /\ "client.connect" \notin hist'.ev
          /\ "connect" \notin hist'.ev
          /\ stack' = << "sleep" >>
          /\ publish_failed' = publish_failed + 1
          /\ publish_success' = publish_success
          /\ publish_count' = publish_count
          /\ last_publish_time' = last_publish_time
          /\ connected' = connected /\ link' = link
          /\ loopRunning' = loopRunning ]_vars

\* C2 witness: PublishTelemetry has just returned false on the flag, after
\* an earlier publish had been stamped.
C2_Witness ==
    /\ stack = << "sleep" >>
    /\ hist.ev = {"publish_telemetry"}
    /\ ~connected
    /\ publish_failed = 1
    /\ publish_count = 1

\* C3: publish_success + publish_failed never exceeds readings_count.
C3_PublishesBoundedByReadings ==
    publish_success + publish_failed <= readings_count

\* C3 witness: after a signal, with one success and one failure counted.
C3_Witness ==
    /\ hist.sigs > 0
    /\ publish_success = 1 /\ publish_failed = 1
    /\ readings_count = 2

\* The frame of start() takes a step (no handler is running before or after).
MainStep == Len(stack) = 1 /\ Len(stack') = 1 /\ stack' # stack

\* C4: (as claimed) a Connect whose body starts while the publisher is
\* connected is a no-op: no transport connect, publisher state unchanged,
\* and it returns true at once.
C4_ConnectIdempotent ==
    [][ (stack = << "c_connect" >> /\ connected /\ MainStep) =>
          /\ "client.connect" \notin hist'.ev
          /\ UNCHANGED pubVars
          /\ stack' \in { << "read" >>, << "init_attrs" >> } ]_vars

\* C5: (as claimed) once a termination signal has been delivered, no
\* further cycle is started.
C5_SignalStopsMonitor ==
    [][ hist.sigs > 0 => ~(stack = << "loop_top" >> /\ stack' = << "ensure" >>) ]_vars

StoppingPcs == {"finally", "s_check", "s_set", "s_stats", "s_close", "s_disc"}

\* C6: the loop is left, and the running flag cleared, only after a
\* termination signal or an exception that escaped the loop body; a cycle
\* that had a soft failure ends at the loop test with the flag still set,
\* so the next cycle begins.
C6_SoftFailuresKeepRunning ==
    /\ (stack[1] \in StoppingPcs) => (hist.sigs > 0 \/ hist.loopException)
    /\ (stack[1] = "returned" /\ hist.initFailed = "none") =>
           (hist.sigs > 0 \/ hist.loopException)
    /\ (hist.cycles > 0 /\ ~running) => (hist.sigs > 0 \/ hist.loopException)
    /\ (stack[1] = "loop_top" /\ hist.softFail /\ hist.sigs = 0) => running

\* C6 witness: no signal, the monitor is in its second cycle with a sensor
\* error and a failed publish counted, and still running.
C6_Witness ==
    /\ hist.sigs = 0 /\ running
    /\ hist.cycles = 2
    /\ stack = << "sleep" >>
    /\ sensor_errors = 1 /\ publish_failed = 1

CyclePcsAfterEnsure == {"read", "validate", "publish", "pt_send", "sleep"}
ConnectPcs == {"c_connect", "c_loop_start", "c_wait", "c_result"}

\* C7: in a cycle that found the publisher disconnected exactly one
\* Connect is made, in a cycle that found it connected none; the attempt
\* does not depend on how many cycles in a row have already reconnected.
C7_OneReconnectPerCycle ==
    /\ (stack[1] \in CyclePcsAfterEnsure) =>
          hist.cycleConnects = (IF hist.cycleStartConnected THEN 0 ELSE 1)
    /\ (stack[1] \in ConnectPcs /\ connCaller = "loop") =>
          (hist.cycleConnects = 1 /\ ~hist.cycleStartConnected)
    /\ (stack[1] \in CyclePcsAfterEnsure \cup ConnectPcs /\ connCaller # "init"
          /\ ~hist.cycleStartConnected) => hist.reconnectRun >= 1

\* C7 witness: the reconnect has been attempted in two cycles in a row.
C7_Witness ==
    /\ hist.reconnectRun = 2
    /\ stack[1] = "read"

C9_InitFailureIsFatal ==
    hist.initFailed # "none" =>
        /\ stack = << "returned" >> /\ result = "false"
        /\ ~running /\ ~start_time
        /\ hist.cycles = 0
        /\ readings_count = 0 /\ sensor_errors = 0
        /\ publish_success = 0 /\ publish_failed = 0 /\ publish_count = 0
        /\ hist.sensorCtor = 1
        /\ hist.testConn = (IF hist.initFailed = "sensor" THEN 0 ELSE 1)
        /\ hist.pubCtor = (IF hist.initFailed \in {"sensor", "test"} THEN 0 ELSE 1)
        /\ hist.initConnect = (IF hist.initFailed = "connect" THEN 1 ELSE 0)

\* C9 witness: the initial Connect timed out.
C9_Witness ==
    /\ hist.initFailed = "connect"
    /\ loopRunning
    /\ stack = << "returned" >>

\* C10: (as claimed) nothing is released before the statistics are
\* logged, and a run that reached Running returns with the sensor closed
\* and the publisher's session and network thread stopped.
C10_StopLogsThenReleases ==
    /\ (hist.closeCalls > 0 \/ hist.disconnectCalls > 0) => hist.statsLogged > 0
    /\ (stack = << "returned" >> /\ hist.initFailed = "none") =>
          /\ hist.closeCalls > 0 /\ hist.disconnectCalls > 0
          /\ ~loopRunning /\ link = "closed"

\* stop() has run through its last statement at least once.
Stopped == hist.disconnectCalls > 0

\* C11: (as claimed) once stop() has released the resources, no
\* read_all_sensors, publish_telemetry or connect is invoked any more, the
\* session is not opened again and running never becomes true again.
C11_StoppedIsTerminal ==
    [][ Stopped =>
          /\ ~Called("read_all_sensors")
          /\ ~Called("publish_telemetry")
          /\ ~Called("connect")
          /\ ~Called("client.connect")
          /\ ~Called("client.loop_start")
          /\ ~Called("client.publish")
          /\ (running' => running) ]_vars

\* Positions of start() at which a step of the current cycle is still to
\* run (the connect wait and the sleep are left out).
MidCycle == {"ensure", "c_connect", "c_loop_start", "c_result", "read",
             "validate", "publish", "pt_send"}

\* C12: (as claimed) the sensor and the publisher are not released while
\* a step of the current cycle is still to run.
C12_CoarseCancellation ==
    (stack[1] \in MidCycle /\ connCaller # "init") =>
        (hist.closeCalls = 0 /\ hist.disconnectCalls = 0)

\* The value connect() hands back on the step that leaves its body: the
\* initializer goes on to the attributes only on True, the loop records a
\* failed reconnect on False.
ConnectReturned ==
    IF connCaller = "init" THEN stack' = << "init_attrs" >>
                           ELSE ~hist'.softFail

\* C13: connect() never raises and can always return: every step that
\* leaves its body returns to the caller with a boolean, False when the
\* transport connect failed, otherwise the value of the flag after the
\* wait; and the wait can always end, whether or not the flag gets set.
C13_ConnectAlwaysReturns ==
    /\ [](stack = << "c_wait" >> => ENABLED ConnectWait)
    /\ [][ (stack[1] \in ConnectPcs /\ MainStep /\ stack'[1] \notin ConnectPcs) =>
             /\ stack \in { << "c_connect" >>, << "c_result" >> }
             /\ stack' \in { << "init_attrs" >>, << "returned" >>, << "read" >> }
             /\ ~hist'.loopException
             /\ (stack = << "c_connect" >>) => ~ConnectReturned
             /\ (stack = << "c_result" >>) => (ConnectReturned = connected) ]_vars

\* C13 witness: a reconnect of the loop returned False after the timeout,
\* the broker never having acknowledged.
C13_Witness ==
    /\ stack = << "read" >>
    /\ hist.cycleConnects = 1 /\ hist.softFail
    /\ ~connected /\ loopRunning /\ link = "pending"

\* C14: the publisher starts disconnected and is_connected() is true
\* exactly when the most recent connection callback was an acknowledgment
\* with rc = 0 (false after a refusal, after a disconnect callback and
\* before any callback); the flag changes in no step of the main thread
\* other than the delivery of the disconnect callback during disconnect().
C14_FlagFollowsCallbacks ==
    /\ [](connected = hist.lastAck)
    /\ [](publisher = FALSE => ~connected)
    /\ [][ connected' # connected =>
             (UNCHANGED stack \/ Called("client.disconnect")) ]_vars

\* C14 witness: after an acknowledged session dropped, the monitor is in a
\* later cycle with the flag down and the transport reconnecting by itself.
C14_Witness ==
    /\ stack = << "read" >> /\ hist.cycles = 2
    /\ ~connected /\ ~hist.lastAck /\ link = "pending"
    /\ publish_success = 1

\* The transport returned no value for any of the three mandatory channels.
AllMandatoryAbsent(o) == \A c \in Mandatory : c \in DOMAIN o /\ o[c] = None

\* Positions of a cycle at which a counter may change.
CountingPcs == {"read", "validate", "publish", "pt_send"}

\* C15: the step of a cycle that finds all three mandatory channels absent,
\* or in which the read raises, adds exactly 1 to sensor_errors, leaves
\* readings_count, publish_success and publish_failed as they are and goes
\* straight to the sleep of the cycle; a read that does not raise changes
\* no counter, and from there to the read of the next cycle no counter
\* changes and no publish is attempted.
C15_FailedReadOnlyCountsError ==
    /\ [][ ( MainStep /\
             \/ stack = << "validate" >> /\ AllMandatoryAbsent(out)
             \/ stack = << "read" >> /\ ReadRaises(registers) ) =>
             /\ sensor_errors' = sensor_errors + 1
             /\ UNCHANGED << readings_count, publish_success, publish_failed >>
             /\ stack' = << "sleep" >>
             /\ ~Called("publish_telemetry") /\ ~Called("client.publish") ]_vars
    /\ [][ (stack = << "read" >> /\ ~ReadRaises(registers)) =>
             UNCHANGED statVars ]_vars
    /\ [][ (~MainStep \/ stack[1] \notin CountingPcs) =>
             /\ UNCHANGED statVars
             /\ ~Called("publish_telemetry") ]_vars

\* C15 witness: the second cycle read nothing on the mandatory channels
\* after a first cycle that published; only sensor_errors moved.
C15_Witness ==
    /\ stack = << "sleep" >> /\ hist.cycles = 2
    /\ sensor_errors = 1 /\ readings_count = 1
    /\ publish_success = 1 /\ publish_failed = 0
    /\ connected

\* The channels for which the transport returned a value, with that value.
PresentReads(o) == [c \in {x \in DOMAIN o : o[x] # None} |-> o[c]]

\* C16: whenever at least one mandatory channel was read, the map handed
\* to publish_telemetry holds exactly the channels whose read returned a
\* value, each with the value read, and no absent entry; it is the map the
\* validation produced, unchanged until publish_telemetry is called.
C16_PublishedMapIsPresentReads ==
    /\ [][ ( MainStep /\ stack = << "validate" >> /\
             (\E c \in Mandatory : out[c] # None) ) =>
             /\ data' = PresentReads(out)
             /\ \A c \in DOMAIN data' : data'[c] # None
             /\ stack' = << "publish" >> ]_vars
    /\ [][ stack[1] = "publish" =>
             /\ data # NoData
             /\ (stack'[1] = "publish" => data' = data)
             /\ (stack'[1] # "publish" => Called("publish_telemetry")) ]_vars
    /\ [][ Called("publish_telemetry") => stack = << "publish" >> ]_vars

\* C16 witness: the reads (1, absent, 0) are about to be published as
\* {nitrogen: 1, potassium: 0}.
C16_Witness ==
    /\ stack = << "publish" >>
    /\ DOMAIN data = {"nitrogen", "potassium"}
    /\ data["nitrogen"] = 1 /\ data["potassium"] = 0

\* C17: in a cycle whose read returned at least one mandatory value (0
\* included), the validation adds 1 to readings_count, counts no sensor
\* error and goes on to the publish; there publish_telemetry can always be
\* called and is called by the next step of the cycle, with the flag up or
\* down, before the cycle ends.
C17_PublishableBatchIsAttempted ==
    /\ [][ ( MainStep /\ stack = << "validate" >> /\ HasMandatoryValue(out) ) =>
             /\ readings_count' = readings_count + 1
             /\ sensor_errors' = sensor_errors
             /\ HasMandatoryValue(data')
             /\ stack' = << "publish" >> ]_vars
    /\ [](stack = << "publish" >> => ENABLED PublishTelemetry)
    /\ [][ ( MainStep /\ stack = << "publish" >> ) =>
             /\ Called("publish_telemetry")
             /\ hist'.cycles = hist.cycles
             /\ stack' = << IF connected THEN "pt_send" ELSE "sleep" >> ]_vars

\* C17 witness: two publishable batches were counted and each was handed
\* to publish_telemetry while the publisher was disconnected.
C17_Witness ==
    /\ stack = << "sleep" >> /\ "publish_telemetry" \in hist.ev
    /\ ~connected
    /\ readings_count = 2 /\ publish_failed = 2 /\ sensor_errors = 0

\* C18: (as claimed) the payload publish_telemetry sends is {ts, values}
\* for every timestamp it is given, 0 included, and the raw map only when
\* it is given none.
C18_TimestampAlwaysWrapped ==
    stack[1] = "pt_send" =>
        payload = IF timestamp # None
                  THEN [kind |-> "ts_values", ts |-> timestamp, values |-> data]
                  ELSE [kind |-> "raw", values |-> data]

\* main(): return 0 if success else 1, for the value start() returned.
ExitCode(r) == IF r = "true" THEN 0 ELSE 1

\* C19: when start() has returned, the exit status is 1 if a step of the
\* initialization failed or an exception escaped the loop body, and 0
\* otherwise; a status of 0 is given only after a termination signal was
\* handled and the loop was left with running false.
C19_ExitStatus ==
    stack = << "returned" >> =>
        /\ (hist.initFailed # "none" \/ hist.loopException) => ExitCode(result) = 1
        /\ (hist.initFailed = "none" /\ ~hist.loopException) => ExitCode(result) = 0
        /\ ExitCode(result) = 0 => (hist.sigs > 0 /\ ~running)

\* C19 witness: the monitor was stopped by a signal after a published
\* reading and start() returned True.
C19_Witness ==
    /\ stack = << "returned" >> /\ result = "true"
    /\ hist.sigs = 1 /\ publish_success = 1

\* C20: in every step each of readings_count, publish_success,
\* publish_failed and sensor_errors keeps its value or grows by exactly 1;
\* none is ever decreased or reset, not by stop() either.
C20_CountersMonotone ==
    [][ /\ readings_count' \in {readings_count, readings_count + 1}
        /\ publish_success' \in {publish_success, publish_success + 1}
        /\ publish_failed' \in {publish_failed, publish_failed + 1}
        /\ sensor_errors' \in {sensor_errors, sensor_errors + 1} ]_vars

\* C20 witness: stop() logged the statistics in the middle of the second
\* cycle; the counters kept their values and the cycle still added to them.
C20_Witness ==
    /\ stack = << "sleep" >> /\ hist.statsLogged = 1
    /\ readings_count = 2 /\ publish_success = 1 /\ publish_failed = 1

\* C21: (as claimed) with a mandatory channel missing from the register
\* map, read_all_sensors does not raise: the cycle goes on to the
\* validation with the values of the other channels and no sensor error is
\* counted for the read.
C21_LookupMissIsSoft ==
    [][ ( MainStep /\ stack = << "read" >> /\ ~(Mandatory \subseteq registers) ) =>
          /\ stack' = << "validate" >>
          /\ sensor_errors' = sensor_errors
          /\ DOMAIN out' = Attempted(registers) \cap registers ]_vars

\* The channels of the register map that the reader knows.
ConfiguredChannels(regs) == (Mandatory \cup Optional) \cap regs

\* C22: (as claimed) every call of read_all_sensors returns normally and
\* has read the register of every configured channel, whatever the earlier
\* reads of the call gave.
C22_EveryConfiguredChannelAttempted ==
    [][ Called("read_all_sensors") =>
          /\ hist'.attempted = ConfiguredChannels(registers)
          /\ stack' = << "validate" >> ]_vars

\* C23: disconnect() can be called in every state in which stop() reaches
\* it, a second time included; every call returns to its caller without an
\* exception and leaves the network thread stopped and the session closed.
C23_DisconnectRepeatable ==
    /\ [](Top = "s_disc" => ENABLED Disconnect)
    /\ [][ ( Top = "s_disc" /\ publisher /\
             hist'.disconnectCalls = hist.disconnectCalls + 1 ) =>
             /\ ~loopRunning' /\ link' = "closed"
             /\ hist'.loopException = hist.loopException
             /\ stack' = IF Len(stack) > 1
                         THEN SubSeq(stack, 1, Len(stack) - 1)
                         ELSE << "returned" >> ]_vars

\* C23 witness: disconnect() has been called a second time, on a publisher
\* that was already disconnected.
C23_Witness ==
    /\ hist.disconnectCalls = 2
    /\ ~loopRunning /\ link = "closed"

\* C24: the step in which publish_telemetry calls client.publish returns
\* True (publish_success advanced by _publish_data) exactly when the
\* transport answers with its success code, and then publish_count grows
\* by exactly 1; on any other answer, and on the return taken when the
\* flag is down, publish_count keeps its value.  No other step changes it.
C24_ReturnFollowsTransport ==
    /\ [][ ( MainStep /\ stack = << "pt_send" >> ) =>
             /\ Called("client.publish")
             /\ IF "rc_success" \in hist'.ev
                THEN /\ publish_success' = publish_success + 1
                     /\ publish_failed' = publish_failed
                     /\ publish_count' = publish_count + 1
                ELSE /\ publish_success' = publish_success
                     /\ publish_failed' = publish_failed + 1
                     /\ publish_count' = publish_count ]_vars
    /\ [][ publish_count' # publish_count =>
             ( MainStep /\ stack = << "pt_send" >> ) ]_vars

\* C24 witness: of two sends the transport accepted one; publish_count is
\* the number of calls that returned True.
C24_Witness ==
    /\ stack = << "sleep" >> /\ "client.publish" \in hist.ev
    /\ "rc_success" \notin hist.ev
    /\ publish_count = 1 /\ publish_success = 1 /\ publish_failed = 1

\* The steps of one cycle, in the order of the loop body.
CycleOrder == << "check", "read", "validate", "publish" >>

\* s is an initial part of t.
IsPrefix(s, t) == Len(s) <= Len(t) /\ s = SubSeq(t, 1, Len(s))

\* C25: the steps a cycle has made so far are always an initial part of
\* reconnect check, read, validation, publish, each made at most once;
\* read_all_sensors is called right after the reconnect check of its
\* cycle, publish_telemetry only after the read and the validation of its
\* cycle, and the sleep ends a cycle that has checked and read.
C25_CycleOrder ==
    /\ [](IsPrefix(hist.cycleSteps, CycleOrder))
    /\ [][ Called("read_all_sensors") => hist.cycleSteps = << "check" >> ]_vars
    /\ [][ Called("publish_telemetry") =>
             hist.cycleSteps = << "check", "read", "validate" >> ]_vars
    /\ [][ Called("sleep") =>
             (Len(hist.cycleSteps) >= 2 /\ hist'.cycleSteps = << >>) ]_vars

\* C25 witness: the second cycle has run all four steps, after a reconnect
\* made by its check, and is about to sleep.
C25_Witness ==
    /\ stack = << "sleep" >> /\ hist.cycles = 2
    /\ hist.cycleSteps = CycleOrder
    /\ hist.cycleConnects = 1

\* C26: (as claimed) over a whole run the statistics are logged at most
\* once and the sensor close and the publisher disconnect are each
\* performed at most once, however the calls of stop() interleave.
C26_ShutdownRunsOnce ==
    /\ hist.statsLogged <= 1
    /\ hist.closeCalls <= 1
    /\ hist.disconnectCalls <= 1

\* C27: (as claimed) when start() has returned because the publisher could
\* not be constructed or the initial connect failed, the sensor that was
\* opened before has been closed and no network thread is left running.
C27_AbortedStartupReleases ==
    ( stack = << "returned" >> /\ hist.initFailed \in {"publisher", "connect"} ) =>
        /\ hist.closeCalls > 0
        /\ ~loopRunning

\* C28: (as claimed) once disconnect() has returned and until the next
\* connect, is_connected() is false, whether or not the transport
\* delivered _on_disconnect, and no publish reaches the transport.
C28_DisconnectedAfterDisconnect ==
    /\ []( (hist.disconnectCalls > 0 /\ link = "closed") => ~connected )
    /\ [][ (hist.disconnectCalls > 0 /\ link = "closed") =>
             ~Called("client.publish") ]_vars

\* The reconnect of this cycle has returned False from the end of its wait
\* (the last step of the main thread, no signal having been handled) and
\* the cycle has not gone on yet.
TimedOutConnect ==
    /\ stack = << "read" >> /\ hist.cycleSteps = << "check" >>
    /\ hist.cycleConnects = 1 /\ hist.softFail
    /\ hist.ev = {} /\ hist.sigs = 0
    /\ loopRunning /\ ~connected

\* C29: (as claimed) after a connect() that returned False on its timeout
\* the flag stays false: no step taken before the next connect() sets it.
C29_TimedOutStaysDisconnected ==
    [][ TimedOutConnect => ~connected' ]_vars

\* C30: (as claimed) publish_telemetry calls client.publish only in a
\* state in which the connection flag is true.
C30_SendOnlyWhileConnected ==
    [][ ( stack[1] = "pt_send" /\ Called("client.publish") ) => connected ]_vars

\* The main thread is at the test of `while self.running`, between two
\* cycles (a signal handler may be running on top of it).
CycleBoundary == stack[1] = "loop_top"

\* C31: at every cycle boundary publish_success + publish_failed equals
\* readings_count, and the step that closes a publish attempt advances
\* exactly one of the two publish counters.
C31_PublishOutcomesMatchReadings ==
    /\ [](CycleBoundary => publish_success + publish_failed = readings_count)
    /\ [][ ( MainStep /\ stack[1] \in {"publish", "pt_send"} /\
             stack'[1] = "sleep" ) =>
             publish_success' + publish_failed' =
                 publish_success + publish_failed + 1 ]_vars

\* C31 witness: two readings, one published and one not, at the boundary
\* after the second cycle.
C31_Witness ==
    /\ stack = << "loop_top" >>
    /\ readings_count = 2 /\ publish_success = 1 /\ publish_failed = 1

\* C32: at every cycle boundary readings_count + sensor_errors equals the
\* number of cycles run, and within a cycle the two together have
\* advanced by at most 1.
C32_OneCountPerCycle ==
    /\ [](CycleBoundary => readings_count + sensor_errors = hist.cycles)
    /\ [](stack[1] \in (MidCycle \cup {"c_wait", "sleep"}) /\ connCaller # "init" =>
             readings_count + sensor_errors \in {hist.cycles - 1, hist.cycles})

\* C32 witness: one cycle counted a reading and the other a sensor error.
C32_Witness ==
    /\ stack = << "loop_top" >> /\ hist.cycles = 2
    /\ readings_count = 1 /\ sensor_errors = 1

\* C33: at every cycle boundary the publisher's publish_count equals the
\* monitor's publish_success; publish_success advances exactly in the
\* steps in which the transport accepted a telemetry send, together with
\* publish_count; publish_attributes changes neither publish_count nor
\* last_publish_time.
C33_PublishCountIsSuccessCount ==
    /\ [](CycleBoundary => publish_count = publish_success)
    /\ [][ (publish_success' # publish_success) <=>
             (MainStep /\ stack = << "pt_send" >> /\ "rc_success" \in hist'.ev) ]_vars
    /\ [][ (publish_success' # publish_success) <=>
             (publish_count' # publish_count) ]_vars
    /\ [][ Called("publish_attributes") =>
             UNCHANGED << publish_count, last_publish_time >> ]_vars

\* C33 witness: after the attributes and two accepted telemetry sends both
\* counts are 2.
C33_Witness ==
    /\ stack = << "loop_top" >> /\ hist.cycles = 2
    /\ publish_count = 2 /\ publish_success = 2 /\ last_publish_time = 2

====
